---- MODULE Spec2Model ----
(***************************************************************************)
(* A model of rayriffy/filesystem: a filesystem-backed key/value cache     *)
(* with TTL expiry (defineCacheInstance: write / read / remove) and its    *)
(* key hasher (getHash).                                                   *)
(*                                                                         *)
(* The filesystem is a map from per-key directory paths to sets of entry   *)
(* files.  A file name is kept as the sequence of its dot-separated        *)
(* segments, i.e. what String.prototype.split('.') yields on it.  Every    *)
(* async function is cut at its awaits: one action per await, holding the  *)
(* filesystem primitive awaited and the synchronous code that follows it.  *)
(***************************************************************************)
EXTENDS Integers, Sequences, FiniteSets, TLC

VARIABLES
    baseOptions,  \* defineCacheInstance: { ...defaultOptions, ...instanceOptions }
    now,          \* the value of Date.now()
    fs,           \* the cache directory: per-key directory |-> its files
    call,         \* per call slot: the call of write, read or remove in it
    callsLeft,    \* calls the caller may still make
    faultsLeft,   \* I/O failures that may still be injected
    hashArgs,     \* HashSpec: the arguments of getHash
    hashOut       \* HashSpec: what getHash returned for them

vars ==
    <<baseOptions, now, fs, call, callsLeft, faultsLeft, hashArgs, hashOut>>

----------------------------------------------------------------------------
(* Bounds of the model *)

\* the clock (Date.now()) runs from 0 to MaxClock, in steps of TickMs
MaxClock == 20
TickMs == 10
\* calls of write/read/remove started in one behaviour, and injected I/O
\* failures (EIO, EACCES, ENOSPC ...) in one behaviour, when the caller
\* awaits each call before the next (Spec)
MaxCalls == 3
MaxFaults == 2
\* the same when calls overlap (ConcSpec)
MaxConcCalls == 3
MaxConcFaults == 0
\* longest key (number of components) given to getHash in HashSpec
MaxKeyLen == 2

\* the call slots: calls in flight at the same time
Procs == {"p1", "p2"}

----------------------------------------------------------------------------
(* JavaScript values *)

Undefined == "undefined"

\* a JS number n.f: int is the integer part, frac the digits after the
\* decimal point read as a number (0: the number is an integer)
Ms(n) == [int |-> n, frac |-> 0]
FracMs == [int |-> 0, frac |-> 15]

\* the maxAgeInMs arguments callers pass: 10 ms and 0.15 ms
MaxAges == {Ms(10), FracMs}

\* x + n for a JS number x and an integer n
Plus(x, n) == [int |-> x.int + n, frac |-> x.frac]

\* String(x).split('.'): the dot-separated segments of the decimal form of x
NumSegments(x) ==
    IF x.frac = 0 THEN <<ToString(x.int)>>
    ELSE <<ToString(x.int), ToString(x.frac)>>

\* the integers whose decimal numerals can occur as a file name segment
Numerals == 0..(MaxClock + 10)

NaN == -1

\* Number(s): the number a decimal numeral denotes, NaN for any other text
Number(s) ==
    IF \E n \in Numerals : ToString(n) = s
    THEN CHOOSE n \in Numerals : ToString(n) = s
    ELSE NaN

\* a < b on JS numbers: false when either side is NaN
Less(a, b) == a # NaN /\ b # NaN /\ a < b

----------------------------------------------------------------------------
(* types.ts: Key = string | number | Buffer *)

Str(s) == [str |-> s]
Num(n) == [num |-> n]
Buf(s) == [buf |-> s]

\* the keys of the calls
KeyA == <<Str("a")>>
KeyB == <<Str("b")>>
Keys == {KeyA, KeyB}

\* the keys given to getHash in HashSpec: up to MaxKeyLen of these items
HashItems == {Str("a"), Str("b"), Str("ab"), Num(1), Str("1"), Buf("a")}
HashKeys == UNION {[1..n -> HashItems] : n \in 1..MaxKeyLen}
HashAlgorithms == {Undefined, "sha256", "md5", "blake9"}

----------------------------------------------------------------------------
(* getHash.ts *)

\* the algorithms node:crypto's createHash accepts (those the model uses)
SupportedAlgorithms == {"sha256", "md5"}

\* the bytes hash.update(item) feeds: String(item) for a number, the
\* string's or the buffer's bytes otherwise
ItemBytes(item) ==
    IF "num" \in DOMAIN item THEN ToString(item.num)
    ELSE IF "str" \in DOMAIN item THEN item.str
    ELSE item.buf

\* for (const item of items) hash.update(...): the bytes fed so far
RECURSIVE UpdateAll(_, _)
UpdateAll(bytes, items) ==
    IF items = <<>> THEN bytes
    ELSE UpdateAll(bytes \o ItemBytes(Head(items)), Tail(items))

\* hash.digest('base64').replace(/\//g, '-'): the digest is taken to be
\* collision-free, a text that names the algorithm and the bytes digested
Digest(algorithm, bytes) == algorithm \o ":" \o bytes

\* getHash that feeds only the first item to the hash
getHashMutFirstItem(items, algorithm) ==
    LET alg == IF algorithm = Undefined THEN "sha256" ELSE algorithm IN
    IF alg \notin SupportedAlgorithms
    THEN [threw |-> TRUE, value |-> "unsupported algorithm"]
    ELSE [threw |-> FALSE,
          value |-> Digest(alg, UpdateAll("", <<Head(items)>>))]

\* getHash(items, algorithm = 'sha256'): createHash throws on an algorithm
\* it does not know
getHash(items, algorithm) ==
    LET alg == IF algorithm = Undefined THEN "sha256" ELSE algorithm IN
    IF alg \notin SupportedAlgorithms
    THEN [threw |-> TRUE, value |-> "unsupported algorithm"]
    ELSE [threw |-> FALSE, value |-> Digest(alg, UpdateAll("", items))]

----------------------------------------------------------------------------
(* defaultOptions.ts and the option merges of defineCacheInstance.ts *)

defaultOptions ==
    [enabled |-> TRUE, cacheAlgorithm |-> "sha256", cacheDirectory |-> ".cache"]

NoOptions == [f \in {} |-> TRUE]

\* { ...a, ...b }
Spread(a, b) ==
    [f \in DOMAIN a \cup DOMAIN b |-> IF f \in DOMAIN b THEN b[f] ELSE a[f]]

\* the instanceOptions given to defineCacheInstance
InstanceOptions == {NoOptions}

\* instanceOptions that name another algorithm
AlgorithmOptions == {[cacheAlgorithm |-> "md5"], [cacheAlgorithm |-> "blake9"]}

\* the functionOptions given to a call
FunctionOptions == {NoOptions, [enabled |-> FALSE]}

\* const options = { ...baseOptions, ...functionOptions }
ResolveOptions(functionOptions) == Spread(baseOptions, functionOptions)

\* the enabled check left out
IsEnabledMutAlways(options) == TRUE

\* if (!options.enabled) return ...
IsEnabled(options) == options.enabled

\* join(options.cacheDirectory, hash)
Join(directory, name) == directory \o "/" \o name

----------------------------------------------------------------------------
(* JSON *)

\* the contents callers write: a number, NaN, and an object holding a
\* reference to itself
Contents == {"1", "NaN", "circular"}

\* the contents that are JSON values
JSONValues == {"1", "null"}

\* JSON.stringify(content): throws on a circular structure, renders NaN
\* as null
Stringify(content) ==
    IF content = "circular" THEN [threw |-> TRUE, value |-> "TypeError"]
    ELSE IF content = "NaN" THEN [threw |-> FALSE, value |-> "null"]
    ELSE [threw |-> FALSE, value |-> content]

\* JSON.parse that takes any text
ParseMutAccept(text) == [threw |-> FALSE, value |-> text]

\* JSON.parse(text): throws on text that is not JSON (an empty file)
Parse(text) ==
    IF text \in JSONValues THEN [threw |-> FALSE, value |-> text]
    ELSE [threw |-> TRUE, value |-> "SyntaxError"]

----------------------------------------------------------------------------
(* The filesystem: node:fs/promises mkdir, writeFile, readdir, readFile, rm *)

NoFs == [d \in {} |-> {}]

HasDir(d) == d \in DOMAIN fs

HasFile(d, name) == HasDir(d) /\ \E f \in fs[d] : f.name = name

FileNames(d) == {f.name : f \in fs[d]}

BodyOf(d, name) == (CHOOSE f \in fs[d] : f.name = name).body

\* mkdir(d, { recursive: true }): no error when d exists
FsMkdir(d) ==
    IF HasDir(d) THEN fs
    ELSE [x \in DOMAIN fs \cup {d} |-> IF x = d THEN {} ELSE fs[x]]

\* the file d/name holds body: created, or its content replaced
FsPut(d, name, body) ==
    [fs EXCEPT ![d] = {f \in @ : f.name # name}
                          \cup {[name |-> name, body |-> body]}]

\* rm that deletes nothing
FsUnlinkMutKeep(d, name) == fs

\* rm(d/name)
FsUnlink(d, name) == [fs EXCEPT ![d] = {f \in @ : f.name # name}]

\* rm of the whole cache directory
FsRmDirMutAll(d) == NoFs

\* rm that leaves the directory in place
FsRmDirMutKeep(d) == fs

\* rm that empties the directory and leaves it in place
FsRmDirMutEmpty(d) == [x \in DOMAIN fs |-> IF x = d THEN {} ELSE fs[x]]

\* rm(d, { recursive: true })
FsRmDir(d) == [x \in DOMAIN fs \ {d} |-> fs[x]]

\* the orders in which readdir can list a set of names
Orders(S) ==
    {s \in [1..Cardinality(S) -> S] :
        \A i, j \in 1..Cardinality(S) : i # j => s[i] # s[j]}

----------------------------------------------------------------------------
(* The calls *)

\* what a call gave its caller
Pending == [kind |-> "pending", etag |-> "", data |-> ""]
Null == [kind |-> "null", etag |-> "", data |-> ""]
Void == [kind |-> "undefined", etag |-> "", data |-> ""]
Value(etag, data) == [kind |-> "value", etag |-> etag, data |-> data]
Threw(error) == [kind |-> "threw", etag |-> "", data |-> error]

\* A call slot.  pc is the await the call is suspended at; key .. i are the
\* call's parameters and locals; ret is what it returned; logged tells that
\* console.error was called.  The last four fields are history: fault (an
\* injected I/O failure hit the call), rmFailed (the index in files of the
\* expired entry whose deletion failed), fresh (the call has returned and no
\* other slot has moved since) and after (the slot whose call returned right
\* before this one started, no other slot having moved since).
IdleCall ==
    [pc |-> "idle", op |-> "none", key |-> <<>>, content |-> "",
     maxAge |-> Ms(0), functionOptions |-> NoOptions,
     options |-> defaultOptions, dir |-> "", text |-> "",
     etag |-> "", target |-> <<>>, at |-> 0, files |-> <<>>, i |-> 0,
     ret |-> Pending, logged |-> FALSE,
     fault |-> FALSE, rmFailed |-> 0, fresh |-> FALSE, after |-> "none"]

InFlight(c) == c.pc \notin {"idle", "done"}

\* a call can start in slot p: no call is in flight there (the result of
\* an earlier call is dropped), and slot "p2" serves only while "p1" is
\* in use
Free(p) ==
    /\ ~InFlight(call[p])
    /\ p = "p2" => call["p1"].pc # "idle"
    /\ callsLeft > 0

Stale(c) == [c EXCEPT !.fresh = FALSE, !.after = "none"]

\* slot p becomes rec; the history of the other slots notes that p moved
Step(p, rec) == [q \in Procs |-> IF q = p THEN rec ELSE Stale(call[q])]

\* the slot whose call returned right before a call of slot p starts
Predecessor(p) ==
    IF /\ \A q \in Procs \ {p} : ~InFlight(call[q])
       /\ \E q \in Procs \ {p} : call[q].pc = "done" /\ call[q].fresh
    THEN CHOOSE q \in Procs \ {p} : call[q].pc = "done" /\ call[q].fresh
    ELSE "none"

Return(c, ret) == [c EXCEPT !.pc = "done", !.ret = ret, !.fresh = TRUE]

\* `${maxAgeInMs}.${maxAgeInMs + Date.now()}.${etag}.json`, as its
\* dot-separated segments
TargetFileName(maxAgeInMs, t, etag) ==
    NumSegments(maxAgeInMs) \o NumSegments(Plus(maxAgeInMs, t))
        \o <<etag, "json">>

\* an injected failure of a filesystem primitive is drawn from the budget
Outcome(ok) ==
    /\ ok \/ faultsLeft > 0
    /\ faultsLeft' = IF ok THEN faultsLeft ELSE faultsLeft - 1

----------------------------------------------------------------------------
(* write *)

\* write, up to its first await: lines 18-26 and the call of mkdir
WriteCall(p) ==
    /\ Free(p)
    /\ \E key \in Keys, content \in Contents,
          maxAgeInMs \in MaxAges,
          functionOptions \in FunctionOptions :
         LET options == ResolveOptions(functionOptions)
             c == [IdleCall EXCEPT !.op = "write", !.key = key,
                       !.content = content, !.maxAge = maxAgeInMs,
                       !.functionOptions = functionOptions,
                       !.options = options, !.after = Predecessor(p)]
             hash == getHash(key, Undefined)
             stringifiedContent == Stringify(content)
             etag == getHash(<<Str(stringifiedContent.value)>>, Undefined)
         IN call' = Step(p,
              IF ~IsEnabled(options) THEN Return(c, Null)
              ELSE IF hash.threw THEN Return(c, Threw(hash.value))
              ELSE IF stringifiedContent.threw
                   THEN Return(c, Threw(stringifiedContent.value))
              ELSE IF etag.threw THEN Return(c, Threw(etag.value))
              ELSE [c EXCEPT !.pc = "mkdir",
                       !.dir = Join(options.cacheDirectory, hash.value),
                       !.text = stringifiedContent.value,
                       !.etag = etag.value,
                       !.target = TargetFileName(maxAgeInMs, now, etag.value),
                       !.at = now])
    /\ callsLeft' = callsLeft - 1
    /\ UNCHANGED <<baseOptions, now, fs, faultsLeft, hashArgs, hashOut>>

\* catch (e) { console.error(...); await rm(...)
Caught(c) == [c EXCEPT !.pc = "cleanup", !.logged = TRUE]

\* await mkdir(requestedDirectory, { recursive: true })
Mkdir(p) ==
    /\ call[p].pc = "mkdir"
    /\ \E ok \in BOOLEAN :
         /\ Outcome(ok)
         /\ IF ok
            THEN /\ fs' = FsMkdir(call[p].dir)
                 /\ call' = Step(p, [call[p] EXCEPT !.pc = "open"])
            ELSE /\ fs' = fs
                 /\ call' = Step(p, Caught([call[p] EXCEPT !.fault = TRUE]))
    /\ UNCHANGED <<baseOptions, now, callsLeft, hashArgs, hashOut>>

\* await writeFile(...), first half: the file is opened, created or
\* truncated; ENOENT when the directory is gone
Open(p) ==
    /\ call[p].pc = "open"
    /\ \E ok \in BOOLEAN :
         /\ Outcome(ok)
         /\ IF ok /\ HasDir(call[p].dir)
            THEN /\ fs' = FsPut(call[p].dir, call[p].target, "")
                 /\ call' = Step(p, [call[p] EXCEPT !.pc = "writeData"])
            ELSE /\ fs' = fs
                 /\ call' = Step(p, Caught([call[p] EXCEPT !.fault = ~ok]))
    /\ UNCHANGED <<baseOptions, now, callsLeft, hashArgs, hashOut>>

\* await writeFile(...), second half: the text is written and write
\* returns { etag, data: content }; a file unlinked meanwhile stays gone
WriteData(p) ==
    /\ call[p].pc = "writeData"
    /\ \E ok \in BOOLEAN :
         /\ Outcome(ok)
         /\ IF ok
            THEN /\ fs' = IF HasFile(call[p].dir, call[p].target)
                          THEN FsPut(call[p].dir, call[p].target, call[p].text)
                          ELSE fs
                 /\ call' = Step(p, Return(call[p],
                                Value(call[p].etag, call[p].content)))
            ELSE /\ fs' = fs
                 /\ call' = Step(p, Caught([call[p] EXCEPT !.fault = TRUE]))
    /\ UNCHANGED <<baseOptions, now, callsLeft, hashArgs, hashOut>>

\* await rm(join(requestedDirectory, targetFileName)).catch(() => {})
\* return null
Cleanup(p) ==
    /\ call[p].pc = "cleanup"
    /\ \E ok \in BOOLEAN :
         /\ Outcome(ok)
         /\ fs' = IF ok /\ HasFile(call[p].dir, call[p].target)
                  THEN FsUnlink(call[p].dir, call[p].target)
                  ELSE fs
         /\ call' = Step(p, Return(call[p], Null))
    /\ UNCHANGED <<baseOptions, now, callsLeft, hashArgs, hashOut>>

----------------------------------------------------------------------------
(* read *)

\* read, up to its first await: lines 47-54 and the call of readdir
ReadCall(p) ==
    /\ Free(p)
    /\ \E key \in Keys, functionOptions \in FunctionOptions :
         LET options == ResolveOptions(functionOptions)
             c == [IdleCall EXCEPT !.op = "read", !.key = key,
                       !.functionOptions = functionOptions,
                       !.options = options, !.after = Predecessor(p)]
             hash == getHash(key, Undefined)
         IN call' = Step(p,
              IF ~IsEnabled(options) THEN Return(c, Null)
              ELSE IF hash.threw THEN Return(c, Threw(hash.value))
              ELSE [c EXCEPT !.pc = "readdir",
                       !.dir = Join(options.cacheDirectory, hash.value),
                       !.at = now])
    /\ callsLeft' = callsLeft - 1
    /\ UNCHANGED <<baseOptions, now, fs, faultsLeft, hashArgs, hashOut>>

\* const files = await readdir(requestedDirectory): the names in any order;
\* ENOENT when the directory is missing, caught by catch (e) {}
Readdir(p) ==
    /\ call[p].pc = "readdir"
    /\ \E ok \in BOOLEAN :
         /\ Outcome(ok)
         /\ IF ok /\ HasDir(call[p].dir)
            THEN \E files \in Orders(FileNames(call[p].dir)) :
                   call' = Step(p, [call[p] EXCEPT !.pc = "scan",
                                       !.files = files, !.i = 1])
            ELSE call' = Step(p, Return([call[p] EXCEPT !.fault = ~ok], Null))
    /\ UNCHANGED <<baseOptions, now, fs, callsLeft, hashArgs, hashOut>>

\* const [_maxAgeString, expireAtString, etag, _extension] = file.split('.')
expireAtString(file) == file[2]
etagOf(file) == file[3]

\* the comparison the other way round: now < expireAt
IsExpiredMutReversed(file, t) == Less(t, Number(expireAtString(file)))

\* expireAt < now, with expireAt = Number(expireAtString)
IsExpired(file, t) == Less(Number(expireAtString(file)), t)

\* the file the loop is at
Current(c) == c.files[c.i]

\* the loop is over: return null
ScanEnd(p) ==
    /\ call[p].pc = "scan"
    /\ call[p].i > Len(call[p].files)
    /\ call' = Step(p, Return(call[p], Null))
    /\ UNCHANGED <<baseOptions, now, fs, callsLeft, faultsLeft, hashArgs, hashOut>>

\* an expired entry: await rm(filePath).  The loop goes on when the file is
\* deleted; a failure (ENOENT when the file is already gone) leaves the
\* try block, and catch (e) {} leads to return null
ScanRm(p) ==
    /\ call[p].pc = "scan"
    /\ call[p].i <= Len(call[p].files)
    /\ IsExpired(Current(call[p]), call[p].at)
    /\ \E ok \in BOOLEAN :
         /\ Outcome(ok)
         /\ IF ok /\ HasFile(call[p].dir, Current(call[p]))
            THEN /\ fs' = FsUnlink(call[p].dir, Current(call[p]))
                 /\ call' = Step(p, [call[p] EXCEPT !.i = @ + 1])
            ELSE /\ fs' = fs
                 /\ call' = Step(p, Return([call[p] EXCEPT !.fault = ~ok,
                                               !.rmFailed = call[p].i], Null))
    /\ UNCHANGED <<baseOptions, now, callsLeft, hashArgs, hashOut>>

\* a live entry: await readFile(...).then(o => JSON.parse(o)) and return
\* { etag, data }; a failure of readFile or JSON.parse leads to return null
ScanReadFile(p) ==
    /\ call[p].pc = "scan"
    /\ call[p].i <= Len(call[p].files)
    /\ ~IsExpired(Current(call[p]), call[p].at)
    /\ \E ok \in BOOLEAN :
         /\ Outcome(ok)
         /\ IF ok /\ HasFile(call[p].dir, Current(call[p]))
            THEN LET data == Parse(BodyOf(call[p].dir, Current(call[p]))) IN
                 call' = Step(p,
                   IF data.threw THEN Return(call[p], Null)
                   ELSE Return(call[p],
                          Value(etagOf(Current(call[p])), data.value)))
            ELSE call' = Step(p, Return([call[p] EXCEPT !.fault = ~ok], Null))
    /\ UNCHANGED <<baseOptions, now, fs, callsLeft, hashArgs, hashOut>>

----------------------------------------------------------------------------
(* remove *)

\* remove, up to its await: lines 82-86 and the call of rm
RemoveCall(p) ==
    /\ Free(p)
    /\ \E key \in Keys, functionOptions \in FunctionOptions :
         LET options == ResolveOptions(functionOptions)
             c == [IdleCall EXCEPT !.op = "remove", !.key = key,
                       !.functionOptions = functionOptions,
                       !.options = options, !.after = Predecessor(p)]
             hash == getHash(key, Undefined)
         IN call' = Step(p,
              IF ~IsEnabled(options) THEN Return(c, Void)
              ELSE IF hash.threw THEN Return(c, Threw(hash.value))
              ELSE [c EXCEPT !.pc = "rm",
                       !.dir = Join(options.cacheDirectory, hash.value)])
    /\ callsLeft' = callsLeft - 1
    /\ UNCHANGED <<baseOptions, now, fs, faultsLeft, hashArgs, hashOut>>

\* try { await rm(requestedDirectory, { recursive: true }) } catch (e) {}
RmDir(p) ==
    /\ call[p].pc = "rm"
    /\ \E ok \in BOOLEAN :
         /\ Outcome(ok)
         /\ fs' = IF ok /\ HasDir(call[p].dir) THEN FsRmDir(call[p].dir)
                  ELSE fs
         /\ call' = Step(p, Return([call[p] EXCEPT !.fault = ~ok], Void))
    /\ UNCHANGED <<baseOptions, now, callsLeft, hashArgs, hashOut>>

----------------------------------------------------------------------------
(* The environment *)

\* Date.now() advances
Tick ==
    /\ now + TickMs <= MaxClock
    /\ now' = now + TickMs
    /\ UNCHANGED
         <<baseOptions, fs, call, callsLeft, faultsLeft, hashArgs, hashOut>>

NoHashArgs == [a |-> <<>>, b |-> <<>>, algorithm |-> Undefined]

\* const baseOptions = { ...defaultOptions, ...instanceOptions }, over an
\* empty cache directory
Constructed(instanceOptions) ==
    /\ baseOptions = Spread(defaultOptions, instanceOptions)
    /\ now = 0
    /\ fs = NoFs
    /\ call = [p \in Procs |-> IdleCall]

\* a step of the call in slot p
Await(p) ==
    \/ Mkdir(p) \/ Open(p) \/ WriteData(p) \/ Cleanup(p)
    \/ Readdir(p) \/ ScanEnd(p) \/ ScanRm(p) \/ ScanReadFile(p)
    \/ RmDir(p)

\* the caller awaits each call before it makes the next, which goes to the
\* other slot
Quiet(p) ==
    /\ \A q \in Procs \ {p} : ~InFlight(call[q])
    /\ ~call[p].fresh

Init ==
    /\ \E instanceOptions \in InstanceOptions : Constructed(instanceOptions)
    /\ callsLeft = MaxCalls
    /\ faultsLeft = MaxFaults
    /\ hashArgs = NoHashArgs
    /\ hashOut = <<>>

Next ==
    \/ Tick
    \/ \E p \in Procs :
         \/ Quiet(p) /\ WriteCall(p)
         \/ Quiet(p) /\ ReadCall(p)
         \/ Quiet(p) /\ RemoveCall(p)
         \/ Await(p)

\* the caller awaits each call
Spec == Init /\ [][Next]_vars

\* the same, on an instance whose options name another hash algorithm
AlgInit ==
    /\ \E instanceOptions \in AlgorithmOptions : Constructed(instanceOptions)
    /\ callsLeft = MaxCalls
    /\ faultsLeft = MaxFaults
    /\ hashArgs = NoHashArgs
    /\ hashOut = <<>>

AlgSpec == AlgInit /\ [][Next]_vars

\* calls overlap
ConcInit ==
    /\ \E instanceOptions \in InstanceOptions : Constructed(instanceOptions)
    /\ callsLeft = MaxConcCalls
    /\ faultsLeft = MaxConcFaults
    /\ hashArgs = NoHashArgs
    /\ hashOut = <<>>

ConcNext ==
    \/ Tick
    \/ \E p \in Procs :
         \/ WriteCall(p) \/ ReadCall(p) \/ RemoveCall(p)
         \/ Await(p)

ConcSpec == ConcInit /\ [][ConcNext]_vars

\* getHash alone: two keys and an algorithm are drawn, getHash is applied
HashInit ==
    /\ Constructed(NoOptions)
    /\ callsLeft = 0
    /\ faultsLeft = 0
    /\ hashArgs \in [a : HashKeys, b : HashKeys, algorithm : HashAlgorithms]
    /\ hashOut = <<>>

ApplyGetHash ==
    /\ hashOut = <<>>
    /\ hashOut' = <<getHash(hashArgs.a, hashArgs.algorithm),
                    getHash(hashArgs.b, hashArgs.algorithm)>>
    /\ UNCHANGED <<baseOptions, now, fs, call, callsLeft, faultsLeft, hashArgs>>

HashNext == ApplyGetHash

HashSpec == HashInit /\ [][HashNext]_vars

----------------------------------------------------------------------------
(* Properties *)

\* slot p took the step: its record changed by more than the history note
\* that another slot moved
Moved(p) == call'[p] # call[p] /\ call'[p] # Stale(call[p])

\* the call in slot r is a read that has returned, made right after the
\* call in slot c.after returned, a write of the same key that returned
\* { etag, data }, both on an enabled cache
ReadAfterWrite(r) ==
    /\ call[r].pc = "done"
    /\ call[r].op = "read"
    /\ IsEnabled(call[r].options)
    /\ call[r].after # "none"
    /\ call[call[r].after].op = "write"
    /\ call[call[r].after].ret.kind = "value"
    /\ call[call[r].after].key = call[r].key

\* the read in slot r started before the clock passed the expiry of the
\* write that had maxAge and was made at time t
NotPastExpiry(r, maxAge, t) == call[r].at <= t + maxAge.int

\* maxAge > 0
Positive(maxAge) == maxAge.int > 0 \/ maxAge.frac > 0

\* C1: a successful write(k, v, t) of a JSON value v with t > 0, followed
\* immediately by read(k) before the clock passes the expiry and with no I/O
\* failure in the read, makes the read return { etag, data } with data = v.
C1_RoundTrip ==
    \A r \in Procs :
        (/\ ReadAfterWrite(r)
         /\ ~call[r].fault
         /\ call[call[r].after].content \in JSONValues
         /\ Positive(call[call[r].after].maxAge)
         /\ NotPastExpiry(r, call[call[r].after].maxAge,
                          call[call[r].after].at))
        => (call[r].ret.kind = "value"
            /\ call[r].ret.data = call[call[r].after].content)

\* the read in slot r came right after a write(k, v, 10) and listed the
\* written file as the only entry of the key
ReadAfterTenMs(r) ==
    /\ ReadAfterWrite(r)
    /\ call[call[r].after].maxAge = Ms(10)
    /\ call[r].files = <<call[call[r].after].target>>

\* C2 as claimed: after write(k, v, 10) on an otherwise empty key, a read(k)
\* started 10 ms or more after the write (exactly 10 ms included) returns
\* null, and the entry file is gone after it.
C2_ExpiryAtTenMs ==
    \A r \in Procs :
        (ReadAfterTenMs(r) /\ call[r].at - call[call[r].after].at >= 10)
        => (call[r].ret = Null
            /\ ~HasFile(call[r].dir, call[call[r].after].target))

\* C2 as amended: after write(k, v, 10) on an otherwise empty key, a read(k)
\* started more than 10 ms after the write returns null, and the entry file
\* is gone after it unless its deletion failed.
C2_ExpiryPastTenMs ==
    \A r \in Procs :
        (ReadAfterTenMs(r) /\ call[r].at - call[call[r].after].at > 10)
        => (/\ call[r].ret = Null
            /\ ~call[r].fault
                 => ~HasFile(call[r].dir, call[call[r].after].target))

C2_Witness ==
    \E r \in Procs :
        /\ ReadAfterTenMs(r)
        /\ call[r].at - call[call[r].after].at > 10
        /\ ~call[r].fault
        /\ call[r].ret = Null
        /\ HasDir(call[r].dir)
        /\ ~HasFile(call[r].dir, call[call[r].after].target)

\* the read in slot r has returned, no other call has moved since, no I/O
\* failure was injected into it, and readdir gave it exactly two entries:
\* files[dead] with an expiry before the read's clock value, and files[live]
\* with an expiry not before it and a body that is JSON text
ReadOfTwo(r, dead, live) ==
    /\ call[r].pc = "done"
    /\ call[r].op = "read"
    /\ call[r].fresh
    /\ ~call[r].fault
    /\ Len(call[r].files) = 2
    /\ {dead, live} = {1, 2}
    /\ IsExpired(call[r].files[dead], call[r].at)
    /\ ~IsExpired(call[r].files[live], call[r].at)
    /\ HasFile(call[r].dir, call[r].files[live])
    /\ ~Parse(BodyOf(call[r].dir, call[r].files[live])).threw

\* the read in slot r returned the entry files[live] and left it as the only
\* file of the directory
ReturnedOnly(r, live) ==
    /\ call[r].ret =
         Value(etagOf(call[r].files[live]),
               Parse(BodyOf(call[r].dir, call[r].files[live])).value)
    /\ FileNames(call[r].dir) = {call[r].files[live]}

\* C3 as claimed: when a key's directory holds an expired and a live entry,
\* then in whichever order readdir lists them, read returns the live entry
\* and deletes the expired file: the directory then holds the live file only.
C3_CleanupAnyOrder ==
    \A r \in Procs : \A dead, live \in {1, 2} :
        ReadOfTwo(r, dead, live) => ReturnedOnly(r, live)

\* C3 as amended: the same when readdir lists the expired entry first.
C3_CleanupExpiredFirst ==
    \A r \in Procs :
        ReadOfTwo(r, 1, 2) => ReturnedOnly(r, 2)

C3_Witness ==
    \E r \in Procs : ReadOfTwo(r, 1, 2) /\ ReturnedOnly(r, 2)

\* C4: write never throws: every write that has returned gave { etag, data }
\* or null, and a null of an enabled cache was reported by console.error.
C4_WriteNeverThrows ==
    \A p \in Procs :
        (call[p].op = "write" /\ call[p].pc = "done")
        => (/\ call[p].ret.kind \in {"value", "null"}
            /\ (call[p].ret.kind = "null" /\ IsEnabled(call[p].options))
                 => call[p].logged)

\* C5: when the deletion of an expired entry fails during a read and a live
\* entry follows in the listing (still in the directory, with JSON text as
\* its body), the read returns an entry, not null.
C5_RmFailureSwallowed ==
    \A r \in Procs :
        (/\ call[r].pc = "done"
         /\ call[r].op = "read"
         /\ call[r].fresh
         /\ call[r].rmFailed > 0
         /\ \E j \in (call[r].rmFailed + 1)..Len(call[r].files) :
              /\ ~IsExpired(call[r].files[j], call[r].at)
              /\ HasFile(call[r].dir, call[r].files[j])
              /\ ~Parse(BodyOf(call[r].dir, call[r].files[j])).threw)
        => call[r].ret.kind = "value"

\* the call in slot p has passed the enabled check of an enabled cache
Hashing(p) == call[p].op # "none" /\ IsEnabled(call[p].options)

\* C6: the per-key directory and the etag of a call are digests under the
\* resolved cacheAlgorithm option.
C6_AlgorithmOptionUsed ==
    \A p \in Procs :
        (Hashing(p) /\ call[p].options.cacheAlgorithm \in SupportedAlgorithms)
        => (/\ call[p].dir =
                 Join(call[p].options.cacheDirectory,
                      getHash(call[p].key,
                              call[p].options.cacheAlgorithm).value)
            /\ call[p].pc \in {"mkdir", "open", "writeData"}
                 => call[p].etag =
                      getHash(<<Str(call[p].text)>>,
                              call[p].options.cacheAlgorithm).value)

\* C7: a call on an enabled cache whose resolved cacheAlgorithm is not a
\* known hash algorithm throws the unsupported-algorithm error: it awaits
\* nothing and returns nothing.
C7_UnsupportedAlgorithmThrows ==
    \A p \in Procs :
        (Hashing(p) /\ call[p].options.cacheAlgorithm \notin SupportedAlgorithms)
        => (call[p].pc = "done"
            /\ call[p].ret = Threw("unsupported algorithm"))

\* C8: a call whose resolved enabled option is false returns at once, null
\* from write and read and nothing from remove, logs nothing and leaves the
\* filesystem as it was.
C8_DisabledShortCircuit ==
    [][\A p \in Procs :
         (Moved(p) /\ ~call'[p].options.enabled)
         => (/\ fs' = fs
             /\ call'[p].pc = "done"
             /\ call'[p].ret = IF call'[p].op = "remove" THEN Void ELSE Null
             /\ ~call'[p].logged)]_vars

C8_Witness ==
    \E p, q \in Procs :
        /\ call[p].pc = "done"
        /\ call[p].op = "write"
        /\ ~call[p].options.enabled
        /\ call[p].ret = Null
        /\ call[q].op = "write"
        /\ call[q].ret.kind = "value"
        /\ HasFile(call[q].dir, call[q].target)

\* the bytes of a key: the string forms of its components, one after the
\* other
RECURSIVE KeyText(_)
KeyText(items) ==
    IF items = <<>> THEN ""
    ELSE (IF "num" \in DOMAIN Head(items) THEN ToString(Head(items).num)
          ELSE IF "str" \in DOMAIN Head(items) THEN Head(items).str
          ELSE Head(items).buf) \o KeyText(Tail(items))

\* getHash was applied to both keys and threw on neither
Hashed == hashOut # <<>> /\ ~hashOut[1].threw /\ ~hashOut[2].threw

\* C9 as claimed: getHash gives one digest to one component sequence and
\* different digests to two sequences that differ in a component or in the
\* order, ['a','b'] and ['ab'], [1] and ['1'] included.
C9_DistinctKeysDistinctHashes ==
    Hashed => (hashOut[1].value = hashOut[2].value <=> hashArgs.a = hashArgs.b)

\* C9 as amended: getHash gives two sequences the same digest exactly when
\* the string forms of their components, put one after the other, are the
\* same text.
C9_HashOfKeyText ==
    Hashed => (hashOut[1].value = hashOut[2].value
                 <=> KeyText(hashArgs.a) = KeyText(hashArgs.b))

C9_Witness ==
    /\ Hashed
    /\ hashArgs.a = <<Str("a"), Str("b")>>
    /\ hashArgs.b = <<Str("ab")>>
    /\ hashOut[1].value = hashOut[2].value

\* C10: a step of a call touches only the directory of the call's own key:
\* every other directory keeps its files and their contents.
C10_IsolationByKey ==
    [][/\ (\A p \in Procs : ~Moved(p)) => fs' = fs
       /\ \A p \in Procs :
            Moved(p) =>
              \A d \in (DOMAIN fs \cup DOMAIN fs') \ {call'[p].dir} :
                d \in DOMAIN fs /\ d \in DOMAIN fs' /\ fs'[d] = fs[d]]_vars

C10_Witness ==
    \E p \in Procs :
        /\ call[p].pc = "done"
        /\ call[p].op = "remove"
        /\ call[p].key = KeyA
        /\ IsEnabled(call[p].options)
        /\ ~HasDir(call[p].dir)
        /\ HasDir(Join(defaultOptions.cacheDirectory,
                       getHash(KeyB, Undefined).value))
        /\ fs[Join(defaultOptions.cacheDirectory,
                   getHash(KeyB, Undefined).value)] # {}

\* the call in slot p is a remove on an enabled cache, and the call that
\* returned right before it started was a remove of the same key on an
\* enabled cache
SecondRemove(c, first) ==
    /\ c.op = "remove"
    /\ IsEnabled(c.options)
    /\ first.op = "remove"
    /\ IsEnabled(first.options)
    /\ first.key = c.key

\* the step is the return of a remove in slot p that follows a remove of
\* the same key
SecondRemoveReturns(p) ==
    /\ Moved(p)
    /\ call'[p].pc = "done"
    /\ call'[p].after # "none"
    /\ SecondRemove(call'[p], call[call'[p].after])

\* every remove that has returned gave undefined: none threw
RemoveNeverRaises ==
    \A p \in Procs :
        (call[p].op = "remove" /\ call[p].pc = "done") => call[p].ret = Void

\* C11 as claimed: remove never raises, and a remove(k) made right after a
\* remove(k) leaves the filesystem as the first call left it, with no
\* directory for k, whether or not a deletion failed.
C11_IdempotentRemove ==
    [][/\ RemoveNeverRaises'
       /\ \A p \in Procs :
            SecondRemoveReturns(p)
            => (fs' = fs /\ call'[p].dir \notin DOMAIN fs')]_vars

\* C11 as amended: remove never raises, and a remove(k) made right after a
\* remove(k) whose deletion did not fail leaves the filesystem as the first
\* call left it, with no directory for k.
C11_IdempotentAfterDeletion ==
    [][/\ RemoveNeverRaises'
       /\ \A p \in Procs :
            (SecondRemoveReturns(p) /\ ~call[call'[p].after].fault)
            => (fs' = fs /\ call'[p].dir \notin DOMAIN fs')]_vars

\* a remove(k) has returned right after a remove(k) that did not fail, and
\* another key still has its entry
C11_Witness ==
    \E p \in Procs :
        /\ call[p].pc = "done"
        /\ call[p].fresh
        /\ call[p].after # "none"
        /\ SecondRemove(call[p], call[call[p].after])
        /\ ~call[call[p].after].fault
        /\ call[p].ret = Void
        /\ ~HasDir(call[p].dir)
        /\ fs # NoFs

\* the read in slot r has returned and no call has moved since
ReadReturned(r) ==
    /\ call[r].pc = "done"
    /\ call[r].op = "read"
    /\ call[r].fresh
    /\ IsEnabled(call[r].options)

\* the read in slot r stopped at a live entry whose body is not JSON text
StoppedAtCorrupted(r) ==
    /\ call[r].i \in 1..Len(call[r].files)
    /\ ~IsExpired(Current(call[r]), call[r].at)
    /\ HasFile(call[r].dir, Current(call[r]))
    /\ BodyOf(call[r].dir, Current(call[r])) \notin JSONValues

\* C12: read never throws, and it returns null, as on a clean miss, when
\* the key directory is missing, when readdir, rm or readFile fails, and
\* when the first live entry's body is not valid JSON.
C12_ReadFailuresSwallowed ==
    \A r \in Procs :
        /\ (call[r].op = "read" /\ call[r].pc = "done")
             => call[r].ret.kind \in {"value", "null"}
        /\ (ReadReturned(r)
             /\ (call[r].fault \/ ~HasDir(call[r].dir) \/ StoppedAtCorrupted(r)))
             => call[r].ret = Null

\* a read has returned null at a live entry left half-written by a failed
\* write
C12_Witness ==
    \E r \in Procs :
        /\ ReadReturned(r)
        /\ ~call[r].fault
        /\ StoppedAtCorrupted(r)
        /\ call[r].ret = Null

\* the instanceOptions the instance was made with
InstanceOptionsOf ==
    CHOOSE instanceOptions \in InstanceOptions \cup AlgorithmOptions :
        baseOptions = Spread(defaultOptions, instanceOptions)

\* the value of option field f by the three layers: the call's, else the
\* instance's, else the default
Layered(f, functionOptions, instanceOptions) ==
    IF f \in DOMAIN functionOptions THEN functionOptions[f]
    ELSE IF f \in DOMAIN instanceOptions THEN instanceOptions[f]
    ELSE defaultOptions[f]

\* C13: every call uses, for each of enabled, cacheDirectory and
\* cacheAlgorithm, the call-level value if the call's options carry the
\* field, else the instance-level value, else the default: a disabled call
\* hashes and joins nothing, an enabled one works in the directory
\* join(cacheDirectory, digest of the key under cacheAlgorithm); and no call
\* changes the options of the instance.
C13_OptionResolution ==
    [][/\ baseOptions' = baseOptions
       /\ \A p \in Procs :
            LET c == call'[p]
                enabled == Layered("enabled", c.functionOptions,
                                   InstanceOptionsOf)
                cacheDirectory == Layered("cacheDirectory", c.functionOptions,
                                          InstanceOptionsOf)
                cacheAlgorithm == Layered("cacheAlgorithm", c.functionOptions,
                                          InstanceOptionsOf)
            IN  (Moved(p) /\ c.op # "none")
                => /\ ~enabled => (c.pc = "done" /\ c.dir = "")
                   /\ (enabled /\ c.pc # "done"
                          /\ cacheAlgorithm \in SupportedAlgorithms)
                        => c.dir = Join(cacheDirectory,
                                        getHash(c.key, cacheAlgorithm).value)]_vars

\* the write in slot p has returned after a failure of mkdir or writeFile
FailedWrite(p) ==
    /\ call[p].op = "write"
    /\ call[p].pc = "done"
    /\ call[p].logged

\* C14: a write that failed returns undefined, not any other empty value.
C14_FailedWriteReturnsUndefined ==
    \A p \in Procs : FailedWrite(p) => call[p].ret = Void

\* the read in slot r returned the entry it stopped at
ReturnedEntry(r) ==
    /\ call[r].op = "read"
    /\ call[r].pc = "done"
    /\ call[r].ret.kind = "value"

\* file is a name that a write with maxAgeInMs, made at clock value t,
\* gives its entry
WrittenAs(file, maxAgeInMs, t) ==
    file = TargetFileName(maxAgeInMs, t, file[Len(file) - 1])

\* C15: read never returns an expired entry: the entry a read returned was
\* written at a clock value t with a maxAgeInMs such that t + maxAgeInMs is
\* not before the clock value at which the read started.
C15_NeverReturnsExpired ==
    \A r \in Procs :
        ReturnedEntry(r)
        => \A maxAgeInMs \in MaxAges, t \in 0..MaxClock :
             WrittenAs(Current(call[r]), maxAgeInMs, t)
             => call[r].at <= t + maxAgeInMs.int

\* the files of directory d, none when d does not exist
FilesIn(f, d) == IF d \in DOMAIN f THEN f[d] ELSE {}

\* the entry named file expired before clock value t: every write that
\* gives its entry this name was made at a clock value whose sum with its
\* maxAgeInMs is less than t
ExpiredBefore(file, t) ==
    \A maxAgeInMs \in MaxAges, w \in 0..MaxClock :
        WrittenAs(file, maxAgeInMs, w) => w + maxAgeInMs.int < t

\* C16: a step of a read creates and modifies no file and leaves every
\* other directory alone; a file it deletes is the entry the scan is at,
\* that entry expired before the clock value at which the read started, and
\* the scan goes on to the next entry.
C16_ReadDeletesOnlyExpired ==
    [][\A p \in Procs :
         (Moved(p) /\ call[p].op = "read" /\ InFlight(call[p]))
         => /\ DOMAIN fs' = DOMAIN fs
            /\ \A d \in DOMAIN fs \ {call[p].dir} : fs'[d] = fs[d]
            /\ FilesIn(fs', call[p].dir) \subseteq FilesIn(fs, call[p].dir)
            /\ \A f \in FilesIn(fs, call[p].dir) \ FilesIn(fs', call[p].dir) :
                 /\ f.name = Current(call[p])
                 /\ ExpiredBefore(f.name, call[p].at)
                 /\ call'[p].pc = "scan"
                 /\ call'[p].i = call[p].i + 1]_vars

\* the write in slot p has returned { etag, data }
SuccessfulWrite(p) ==
    /\ call[p].op = "write"
    /\ call[p].pc = "done"
    /\ call[p].ret.kind = "value"

\* the calls in slots p and q are successful writes to one key, the second
\* started right after the first returned, and no call has moved since the
\* second returned
TwoWrites(p, q) ==
    /\ SuccessfulWrite(p)
    /\ SuccessfulWrite(q)
    /\ call[q].after = p
    /\ call[q].fresh
    /\ call[q].key = call[p].key

\* C17: every successful write creates a new entry file: after two
\* successful writes to one key in a row the key's directory holds at least
\* two entry files, whatever the contents, TTLs and clock values of the two.
C17_EveryWriteNewFile ==
    \A p, q \in Procs :
        TwoWrites(p, q)
        => (HasDir(call[q].dir) /\ Cardinality(fs[call[q].dir]) >= 2)

\* the call in slot p is a remove on an enabled cache that has returned and
\* whose rm did not fail
Removed(p) ==
    /\ call[p].op = "remove"
    /\ call[p].pc = "done"
    /\ IsEnabled(call[p].options)
    /\ ~call[p].fault

\* the read in slot r has returned; it started right after the remove of
\* the same key in slot call[r].after returned
ReadAfterRemove(r) ==
    /\ call[r].op = "read"
    /\ call[r].pc = "done"
    /\ IsEnabled(call[r].options)
    /\ call[r].after # "none"
    /\ Removed(call[r].after)
    /\ call[call[r].after].key = call[r].key

\* C18: after a remove(k) whose deletion did not fail, with no other call
\* in flight, the directory of k and every entry in it are gone, and a
\* read(k) that follows returns null.
C18_RemoveDeletesAll ==
    \A p \in Procs :
        /\ (Removed(p) /\ call[p].fresh) => ~HasDir(call[p].dir)
        /\ ReadAfterRemove(p) => call[p].ret = Null

\* a remove(k) has returned right after a successful write to k, and the
\* directory of k is gone
C18_Witness ==
    \E p \in Procs :
        /\ Removed(p)
        /\ call[p].fresh
        /\ call[p].after # "none"
        /\ SuccessfulWrite(call[p].after)
        /\ call[call[p].after].key = call[p].key
        /\ ~HasDir(call[p].dir)

\* the write in slot q failed; it started right after the successful write
\* in slot p returned, and no call has moved since it returned
FailedAfterSuccessful(p, q) ==
    /\ SuccessfulWrite(p)
    /\ FailedWrite(q)
    /\ call[q].ret = Null
    /\ call[q].after = p
    /\ call[q].fresh

\* C19: a failed write harms no other entry: the entry file that the
\* successful write before it created is still there, with the content
\* that write gave it.
C19_FailedWriteHarmsNoEntry ==
    \A p, q \in Procs :
        FailedAfterSuccessful(p, q)
        => /\ HasFile(call[p].dir, call[p].target)
           /\ BodyOf(call[p].dir, call[p].target) = call[p].text

\* the etag a write returns for content whose serialized form is text
EtagOfText(text) == getHash(<<Str(text)>>, Undefined).value

\* C20: every { etag, data } a read returns is what a write stored: data is
\* a JSON value, and etag is the etag the write of that data returned, the
\* digest of its serialized form.
C20_ReadProvenance ==
    \A r \in Procs :
        ReturnedEntry(r)
        => /\ call[r].ret.data \in JSONValues
           /\ call[r].ret.etag = EtagOfText(call[r].ret.data)

====
